---- MODULE Spec2Model ----
(***************************************************************************)
(* Ani3Lix authentication and role-based access control.                   *)
(*                                                                         *)
(* The model follows the server code: the storage layer                    *)
(* (PostgreSQLStorage), the auth middleware (authenticateToken,            *)
(* requireRole, generateTokens, verifyRefreshToken), the AuthService and   *)
(* the routes that call them.  Every `await` on the storage layer is one   *)
(* step of a request, so that concurrent requests interleave exactly at    *)
(* the points where the event loop can switch between them.                *)
(***************************************************************************)
EXTENDS Integers, Sequences, FiniteSets, TLC

VARIABLES
    users,            \* the users table: id -> row
    rolePermissions,  \* the role_permissions table, in insertion order
    issued,           \* tokens handed out to clients so far
    now,              \* Date.now(), in milliseconds
    pc,               \* per request: the statement it is waiting on
    req,              \* per request: its arguments, locals and outcome
    calls,            \* number of requests begun so far
    users0,           \* the users table as it was initially (never read by the code)
    anime,            \* the anime table: id -> row
    episodes,         \* the episodes table: a set of rows
    comments          \* the comments table: id -> row

\* The tables the account and role operations never touch.
content == <<anime, episodes, comments>>

vars == <<users, rolePermissions, issued, now, pc, req, calls, users0, content>>

----------------------------------------------------------------------------
(* Bounds of the model *)

MaxUsers == 3      \* size of the id space of the users table
MaxProcs == 2      \* requests that can be in flight together
MaxCalls == 2      \* requests begun in one behaviour

UserIds == 1 .. MaxUsers
Procs == 1 .. MaxProcs

----------------------------------------------------------------------------
(* shared/schema: roles and rows *)

Roles == {"user", "moderator", "admin", "site_owner"}

Absent == "<absent>"    \* a column that is NULL / a claim that is not in a payload
Null == -1              \* a NULL timestamp

NoRow ==
    [exists |-> FALSE, username |-> Absent, email |-> Absent, password |-> Absent,
     displayName |-> Absent, bio |-> Absent, avatarUrl |-> Absent,
     role |-> Absent, lastUsernameChange |-> Null]

\* bcrypt.hash / bcrypt.compare: the digest is not the plaintext, and a
\* plaintext verifies against a digest exactly when the digest was made from it.
SALT_ROUNDS == 12
bcryptHash(plain) == "$2b$" \o ToString(SALT_ROUNDS) \o "$" \o plain
bcryptCompare(plain, digest) == digest = bcryptHash(plain)

----------------------------------------------------------------------------
(* PostgreSQLStorage: reads *)

\* Mutant: rows are served from a copy taken at start-up.
getUser_Initial(id) == IF id \in UserIds /\ users0[id].exists THEN users0[id] ELSE NoRow

getUser(id) == IF id \in UserIds /\ users[id].exists THEN users[id] ELSE NoRow

getUsersByRole(role) == {i \in UserIds : users[i].exists /\ users[i].role = role}

getUserByUsername(username) ==
    LET hits == {i \in UserIds : users[i].exists /\ users[i].username = username}
    IN  IF hits = {} THEN 0 ELSE CHOOSE i \in hits : TRUE

getUserByEmail(email) ==
    LET hits == {i \in UserIds : users[i].exists /\ users[i].email = email}
    IN  IF hits = {} THEN 0 ELSE CHOOSE i \in hits : TRUE

----------------------------------------------------------------------------
(* middleware/auth: tokens *)

JWT_SECRET == "JWT_SECRET"
JWT_EXPIRES_IN == 15 * 60                     \* "15m", in seconds
REFRESH_TOKEN_EXPIRES_IN == 7 * 24 * 60 * 60  \* "7d", in seconds

\* jwt.sign: iat is the wall clock in whole seconds, exp = iat + expiresIn.
jwtSign(userId, username, role, expiresIn, audience, t) ==
    [userId |-> userId, username |-> username, role |-> role,
     iat |-> t \div 1000, exp |-> (t \div 1000) + expiresIn,
     iss |-> "ani3lix-api", aud |-> audience, key |-> JWT_SECRET]

generateTokens(user, id, t) ==
    [accessToken  |-> jwtSign(id, user.username, user.role, JWT_EXPIRES_IN,
                              "ani3lix-client", t),
     refreshToken |-> jwtSign(id, Absent, Absent, REFRESH_TOKEN_EXPIRES_IN,
                              "ani3lix-refresh", t)]

\* Mutant: a token is still accepted in the second it expires.
jwtVerify_Late(token, t) ==
    IF token.key # "JWT_SECRET" THEN "JsonWebTokenError"
    ELSE IF t \div 1000 > token.exp THEN "TokenExpiredError"
    ELSE "ok"

\* jwt.verify(token, JWT_SECRET) as the code calls it, with no options: the
\* signature and the expiry are checked, the audience and the issuer are not.
jwtVerify(token, t) ==
    IF token.key # JWT_SECRET THEN "JsonWebTokenError"
    ELSE IF t \div 1000 >= token.exp THEN "TokenExpiredError"
    ELSE "ok"

\* verifyRefreshToken: the user id of the payload, or null (0).
verifyRefreshToken(token, t) ==
    IF jwtVerify(token, t) = "ok" THEN token.userId ELSE 0

\* requireRole(minimumRole): does the request pass?
roleHierarchy == [user |-> 1, moderator |-> 2, admin |-> 3, site_owner |-> 4]

\* Mutant: the minimum role itself does not pass.
requireRole_Strict(minimumRole, userRole) ==
    ~ (roleHierarchy[userRole] <= roleHierarchy[minimumRole])

requireRole(minimumRole, userRole) ==
    ~ (roleHierarchy[userRole] < roleHierarchy[minimumRole])

\* AuthService.hasPermission, with the rank table it declares itself.
hasPermissionHierarchy == [user |-> 1, moderator |-> 2, admin |-> 3, site_owner |-> 4]

hasPermission(user, requiredRole) ==
    hasPermissionHierarchy[user.role] >= hasPermissionHierarchy[requiredRole]

\* AuthService.canModifyContent; id is user.id.
canModifyContent(user, id, contentUserId) ==
    id = contentUserId \/ hasPermission(user, "moderator")

----------------------------------------------------------------------------
(* Outcomes a caller sees: the Error messages and response bodies *)

Ok == "ok"
AdminUserNotFound == "Admin user not found"
TargetUserNotFound == "Target user not found"
AdminsCannotCreate == "Admins cannot create other admins or site owners"
InsufficientPermissionsToChange == "Insufficient permissions to change user roles"
CannotDemoteLastSiteOwner == "Cannot demote the last site owner"
UserNotFound == "User not found"
StorageError == "storage statement failed"
TokenExpired == "Token expired"
InvalidToken == "Invalid token"
InsufficientPermissions == "Insufficient permissions"
InvalidRefreshToken == "Invalid refresh token"

UsernameExists == "Username already exists"
EmailRegistered == "Email already registered"
UsernameLength == "Username must be between 3 and 50 characters"
PasswordLength == "Password must be at least 8 characters long"
InvalidCredentials == "Invalid credentials"
CurrentPasswordIncorrect == "Current password is incorrect"
NewPasswordLength == "New password must be at least 8 characters long"
UsernameCooldown == "Username can only be changed once per week"
UsernameTaken == "Username already taken"
DisplayNameLength == "Display name must be 100 characters or less"
BioLength == "Bio must be 500 characters or less"
ValidationFailed == "Validation failed"
UniqueViolation == "duplicate key value violates unique constraint"
UpdateUsernameFailed == "Failed to update username"

----------------------------------------------------------------------------
(* Requests *)

Idle == [op |-> "none"]

\* What every request records: what it is, its outcome, and the tables and the
\* clock as they were when it arrived (the code never reads the last three).
Request(op) ==
    [op |-> op, result |-> Absent, usersAtCall |-> users, logAtCall |-> rolePermissions,
     nowAtCall |-> now]

\* A request is over: its outcome stays in req[p].result until the caller has it.
Finish(p, r, result) ==
    /\ pc' = [pc EXCEPT ![p] = "done"]
    /\ req' = [req EXCEPT ![p] = [r EXCEPT !.result = result]]

\* A request waits on its next storage statement.
Goto(p, r, label) ==
    /\ pc' = [pc EXCEPT ![p] = label]
    /\ req' = [req EXCEPT ![p] = r]

\* A request arrives while slot p is free.
Begin(p) ==
    /\ pc[p] = "idle"
    /\ calls < MaxCalls
    /\ calls' = calls + 1

\* The caller has its response; the slot is free again.
Return(p) ==
    /\ pc[p] = "done"
    /\ pc' = [pc EXCEPT ![p] = "idle"]
    /\ req' = [req EXCEPT ![p] = Idle]
    /\ UNCHANGED <<users, rolePermissions, issued, now, calls, users0, content>>

----------------------------------------------------------------------------
(* authenticateToken, and the routes behind it *)

\* A request that carries a bearer token.  userId is decoded.userId.
TokenRequest(op, viaRoute, token, targetUserId, newRole, adminUserId) ==
    Request(op) @@
    [viaRoute |-> viaRoute, token |-> token,
     targetUserId |-> targetUserId, newRole |-> newRole, adminUserId |-> adminUserId,
     admin |-> NoRow, targetUser |-> NoRow, user |-> NoRow]

\* authenticateToken up to its await: jwt.verify, then storage.getUser is sent.
Authenticate(p, r) ==
    LET v == jwtVerify(r.token, now)
    IN  IF v = "TokenExpiredError" THEN Finish(p, r, TokenExpired)
        ELSE IF v = "JsonWebTokenError" THEN Finish(p, r, InvalidToken)
        ELSE Goto(p, r, "auth_getUser")

\* GET /api/auth/me arrives with a bearer token.
GetAuthMe(p, token) ==
    /\ Begin(p)
    /\ Authenticate(p, TokenRequest("authMe", TRUE, token, 0, Absent, token.userId))
    /\ UNCHANGED <<users, rolePermissions, issued, now, users0, content>>

\* PUT /api/admin/users/:id/role arrives with a bearer token.
PutUserRole(p, token, id, role) ==
    /\ Begin(p)
    /\ Authenticate(p, TokenRequest("changeUserRole", TRUE, token, id, role, token.userId))
    /\ UNCHANGED <<users, rolePermissions, issued, now, users0, content>>

\* A request to a route behind [authenticateToken, requireRole(minimumRole)]
\* arrives with a bearer token.
GatedRequest(p, token, minimumRole) ==
    /\ Begin(p)
    /\ Authenticate(p, [minimumRole |-> minimumRole] @@
                       TokenRequest("gated", TRUE, token, 0, Absent, token.userId))
    /\ UNCHANGED <<users, rolePermissions, issued, now, users0, content>>

\* The minimum role of the route a request goes to.
RouteMinimumRole(r) == IF r.op = "gated" THEN r.minimumRole ELSE "admin"

\* Mutant: the role is taken from the token's payload.
GateRole_FromToken(user, token) == token.role

\* req.user.role, the role requireRole compares.
GateRole(user, token) == user.role

\* authenticateToken after storage.getUser; then the route: /api/auth/me
\* answers with the user; a gated route runs requireRole(minimumRole); the
\* role route runs requireRole("admin") and calls
\* authService.changeUserRole(req.params.id, role, req.userId).
AuthGetUser(p) ==
    /\ pc[p] = "auth_getUser"
    /\ LET r == req[p]
           user == getUser(r.adminUserId)
       IN  IF ~ user.exists THEN Finish(p, r, InvalidToken)
           ELSE IF r.op = "authMe" THEN Finish(p, r, Ok)
           ELSE IF ~ requireRole(RouteMinimumRole(r), GateRole(user, r.token))
                THEN Finish(p, r, InsufficientPermissions)
           ELSE IF r.op = "gated" THEN Finish(p, r, Ok)
           ELSE Goto(p, r, "cur_getAdmin")
    /\ UNCHANGED <<users, rolePermissions, issued, now, calls, users0, content>>

----------------------------------------------------------------------------
(* AuthService.changeUserRole and PostgreSQLStorage.updateUserRole *)

\* AuthService.changeUserRole called directly.
CallChangeUserRole(p, targetUserId, newRole, adminUserId) ==
    /\ Begin(p)
    /\ Goto(p, TokenRequest("changeUserRole", FALSE, Absent, targetUserId, newRole, adminUserId),
            "cur_getAdmin")
    /\ UNCHANGED <<users, rolePermissions, issued, now, users0, content>>

\* const admin = await storage.getUser(adminUserId)
ChangeRoleGetAdmin(p) ==
    /\ pc[p] = "cur_getAdmin"
    /\ LET r == req[p]
           admin == getUser(r.adminUserId)
       IN  IF ~ admin.exists THEN Finish(p, r, AdminUserNotFound)
           ELSE Goto(p, [r EXCEPT !.admin = admin], "cur_getTarget")
    /\ UNCHANGED <<users, rolePermissions, issued, now, calls, users0, content>>

\* Mutant: the admin branch forgets that admins cannot create admins.
PermissionCheck_AdminMayCreateAdmin(adminRole, newRole) ==
    IF adminRole = "admin"
    THEN IF newRole = "site_owner" THEN AdminsCannotCreate ELSE Ok
    ELSE IF adminRole = "site_owner" THEN Ok
    ELSE InsufficientPermissionsToChange

\* Mutant: the admin branch checks nothing.
PermissionCheck_AdminUnchecked(adminRole, newRole) ==
    IF adminRole = "admin" THEN Ok
    ELSE IF adminRole = "site_owner" THEN Ok
    ELSE InsufficientPermissionsToChange

\* Mutant: the final else lets every other role through.
PermissionCheck_NoElse(adminRole, newRole) ==
    IF adminRole = "admin"
    THEN IF newRole = "admin" \/ newRole = "site_owner"
         THEN AdminsCannotCreate ELSE Ok
    ELSE Ok

\* The role-hierarchy check of changeUserRole on admin.role and newRole.
PermissionCheck(adminRole, newRole) ==
    IF adminRole = "admin"
    THEN IF newRole = "admin" \/ newRole = "site_owner"
         THEN AdminsCannotCreate ELSE Ok
    ELSE IF adminRole = "site_owner" THEN Ok
    ELSE InsufficientPermissionsToChange

\* Mutant: the owner count is taken only for a demotion to user.
NeedsOwnerCount_OnlyToUser(targetRole, newRole) ==
    targetRole = "site_owner" /\ newRole = "user"

\* Does changeUserRole count the site owners before it writes?
NeedsOwnerCount(targetRole, newRole) ==
    targetRole = "site_owner" /\ newRole # "site_owner"

\* const targetUser = await storage.getUser(targetUserId), then the checks on
\* admin.role and newRole, up to the next await.
ChangeRoleGetTarget(p) ==
    /\ pc[p] = "cur_getTarget"
    /\ LET r == req[p]
           targetUser == getUser(r.targetUserId)
           r2 == [r EXCEPT !.targetUser = targetUser]
           verdict == PermissionCheck(r.admin.role, r.newRole)
       IN  IF ~ targetUser.exists THEN Finish(p, r, TargetUserNotFound)
           ELSE IF verdict # Ok THEN Finish(p, r2, verdict)
           ELSE IF NeedsOwnerCount(targetUser.role, r.newRole)
                THEN Goto(p, r2, "cur_countOwners")
           ELSE Goto(p, r2, "uur_getUser")
    /\ UNCHANGED <<users, rolePermissions, issued, now, calls, users0, content>>

\* Mutant: the last owner is let go (< instead of <=).
IsLastSiteOwner_Strict(siteOwners) == Cardinality(siteOwners) < 1

\* Mutant: one owner too many is kept (<= 2).
IsLastSiteOwner_Two(siteOwners) == Cardinality(siteOwners) <= 2

\* The test on the result of getUsersByRole("site_owner").
IsLastSiteOwner(siteOwners) == Cardinality(siteOwners) <= 1

\* const siteOwners = await storage.getUsersByRole("site_owner")
ChangeRoleCountOwners(p) ==
    /\ pc[p] = "cur_countOwners"
    /\ LET r == req[p]
       IN  IF IsLastSiteOwner(getUsersByRole("site_owner"))
           THEN Finish(p, r, CannotDemoteLastSiteOwner)
           ELSE Goto(p, r, "uur_getUser")
    /\ UNCHANGED <<users, rolePermissions, issued, now, calls, users0, content>>

\* updateUserRole: const user = await this.getUser(userId)
UpdateRoleGetUser(p) ==
    /\ pc[p] = "uur_getUser"
    /\ LET r == req[p]
           user == getUser(r.targetUserId)
       IN  IF ~ user.exists THEN Finish(p, r, UserNotFound)
           ELSE Goto(p, [r EXCEPT !.user = user], "uur_update")
    /\ UNCHANGED <<users, rolePermissions, issued, now, calls, users0, content>>

\* updateUserRole: await db.update(users).set({ role: newRole }).where(id = userId)
UpdateRoleWrite(p) ==
    /\ pc[p] = "uur_update"
    /\ users' = [users EXCEPT ![req[p].targetUserId].role = req[p].newRole]
    /\ Goto(p, req[p], "uur_insert")
    /\ UNCHANGED <<rolePermissions, issued, now, calls, users0, content>>

\* Mutant: previousRole is taken from the request instead of the row read before.
RoleChangeRecord_PreviousIsNew(userId, grantedBy, previousRole, newRole) ==
    [userId |-> userId, grantedBy |-> grantedBy,
     previousRole |-> newRole, newRole |-> newRole]

\* The row updateUserRole inserts into role_permissions.
RoleChangeRecord(userId, grantedBy, previousRole, newRole) ==
    [userId |-> userId, grantedBy |-> grantedBy,
     previousRole |-> previousRole, newRole |-> newRole]

\* updateUserRole: await db.insert(rolePermissions).values({...}); the request
\* then returns.
UpdateRoleInsert(p) ==
    /\ pc[p] = "uur_insert"
    /\ LET r == req[p]
       IN  /\ rolePermissions' = Append(rolePermissions,
                  RoleChangeRecord(r.targetUserId, r.adminUserId, r.user.role, r.newRole))
           /\ Finish(p, r, Ok)
    /\ UNCHANGED <<users, issued, now, calls, users0, content>>

\* A statement sent to the database fails (connection lost, statement
\* refused): the await throws and the request ends with that error.
StoragePoints ==
    {"auth_getUser", "cur_getAdmin", "cur_getTarget", "cur_countOwners",
     "uur_getUser", "uur_update", "uur_insert",
     "cun_getUser", "cun_lookup", "cun_update"}

StorageFails(p) ==
    /\ pc[p] \in StoragePoints
    /\ Finish(p, req[p], StorageError)
    /\ UNCHANGED <<users, rolePermissions, issued, now, calls, users0, content>>

ChangeRoleStep(p) ==
    \/ AuthGetUser(p)
    \/ ChangeRoleGetAdmin(p)
    \/ ChangeRoleGetTarget(p)
    \/ ChangeRoleCountOwners(p)
    \/ UpdateRoleGetUser(p)
    \/ UpdateRoleWrite(p)
    \/ UpdateRoleInsert(p)

----------------------------------------------------------------------------
(* AuthService: accounts.  Each of these runs to completion in one step. *)

USERNAME_CHANGE_COOLDOWN == 7 * 24 * 60 * 60 * 1000   \* 7 days in milliseconds
DayMs == 24 * 60 * 60 * 1000

\* Mutant: the quotient is rounded down.
Ceil_Floor(a, b) == a \div b

\* Math.ceil(a / b) for a >= 0, b > 0
Ceil(a, b) == (a + b - 1) \div b

\* gen_random_uuid(): an id no row has.  The table of the model has MaxUsers ids.
FreeIds == {i \in UserIds : ~ users[i].exists}
NewId == CHOOSE i \in FreeIds : \A j \in FreeIds : i <= j

\* The tokens field of a response that carries no tokens.
NoToken == jwtSign(0, Absent, Absent, 0, Absent, 0)
NoTokens == [accessToken |-> NoToken, refreshToken |-> NoToken]

\* Both tokens of generateTokens go to the client.
Issue(user, id) ==
    issued' = issued \cup {generateTokens(user, id, now).accessToken,
                           generateTokens(user, id, now).refreshToken}

\* Mutant: the email is not looked up.
RegisterVerdict_NoEmailCheck(username, email, password) ==
    IF getUserByUsername(username) # 0 THEN UsernameExists
    ELSE IF Len(username) < 3 \/ Len(username) > 50 THEN UsernameLength
    ELSE IF Len(password) < 8 THEN PasswordLength
    ELSE Ok

\* The checks of registerUser, in the order of the code.
RegisterVerdict(username, email, password) ==
    IF getUserByUsername(username) # 0 THEN UsernameExists
    ELSE IF getUserByEmail(email) # 0 THEN EmailRegistered
    ELSE IF Len(username) < 3 \/ Len(username) > 50 THEN UsernameLength
    ELSE IF Len(password) < 8 THEN PasswordLength
    ELSE Ok

\* insertUserSchema = createInsertSchema(users).pick({...}): parse keeps the
\* picked keys of the body and drops every other key.
InsertUserFields == {"username", "email", "password", "displayName", "bio"}
RequiredUserFields == {"username", "email", "password"}

\* Mutant: the schema lets unknown keys through.
insertUserSchemaParse_Passthrough(body) == body

insertUserSchemaParse(body) ==
    [f \in (DOMAIN body) \cap InsertUserFields |-> body[f]]

\* A column of an inserted row: the value given, or the column's default.
Column(values, f, default) == IF f \in DOMAIN values THEN values[f] ELSE default

\* { ...userData, password: hashedPassword }
HashedUserData(userData) ==
    [f \in DOMAIN userData |->
        IF f = "password" THEN bcryptHash(userData[f]) ELSE userData[f]]

\* The row storage.createUser inserts: db.insert(users).values({...user}); a
\* column that is not given takes its default.
NewUserRow(user) ==
    [exists |-> TRUE, username |-> user.username, email |-> user.email,
     password |-> user.password,
     displayName |-> Column(user, "displayName", Absent),
     bio |-> Column(user, "bio", Absent), avatarUrl |-> Column(user, "avatarUrl", Absent),
     role |-> Column(user, "role", "user"),
     lastUsernameChange |-> Column(user, "lastUsernameChange", Null)]

\* authService.registerUser(userData); body is what the caller sent.
RegisterUserFrom(p, body, userData) ==
    /\ Begin(p)
    /\ LET r == Request("registerUser") @@
                [body |-> body, username |-> userData.username, email |-> userData.email,
                 password |-> userData.password, userId |-> 0, tokens |-> NoTokens]
           verdict == RegisterVerdict(userData.username, userData.email, userData.password)
           newUser == NewUserRow(HashedUserData(userData))
       IN  IF verdict # Ok
           THEN /\ Finish(p, r, verdict)
                /\ UNCHANGED <<users, issued>>
           ELSE /\ FreeIds # {}
                /\ users' = [users EXCEPT ![NewId] = newUser]
                /\ Issue(newUser, NewId)
                /\ Finish(p, [r EXCEPT !.userId = NewId,
                                       !.tokens = generateTokens(newUser, NewId, now)], Ok)
    /\ UNCHANGED <<rolePermissions, now, users0, content>>

\* AuthService.registerUser called directly.
RegisterUser(p, userData) == RegisterUserFrom(p, userData, userData)

\* POST /api/auth/register: insertUserSchema.parse(req.body), then registerUser.
PostRegister(p, body) ==
    IF RequiredUserFields \subseteq DOMAIN body
    THEN RegisterUserFrom(p, body, insertUserSchemaParse(body))
    ELSE /\ Begin(p)
         /\ Finish(p, Request("registerUser") @@
                      [body |-> body, username |-> Absent, email |-> Absent,
                       password |-> Absent, userId |-> 0, tokens |-> NoTokens],
                   ValidationFailed)
         /\ UNCHANGED <<users, rolePermissions, issued, now, users0, content>>

\* Mutant: the identifier is looked up as a username only.
LoginLookup_UsernameOnly(identifier) == getUserByUsername(identifier)

\* Mutant: the identifier is looked up as a username first.
LoginLookup_UsernameFirst(identifier) ==
    IF getUserByUsername(identifier) # 0 THEN getUserByUsername(identifier)
    ELSE getUserByEmail(identifier)

\* loginUser: the identifier is looked up as an email first, then as a username.
LoginLookup(identifier) ==
    IF getUserByEmail(identifier) # 0 THEN getUserByEmail(identifier)
    ELSE getUserByUsername(identifier)

\* Mutant: an unknown identifier is reported as such.
LoginVerdict_NamesUnknownUser(id, password) ==
    IF id = 0 THEN UserNotFound
    ELSE IF ~ bcryptCompare(password, getUser(id).password) THEN InvalidCredentials
    ELSE Ok

\* The two checks of loginUser on the row found (id = 0: none found).
LoginVerdict(id, password) ==
    IF id = 0 THEN InvalidCredentials
    ELSE IF ~ bcryptCompare(password, getUser(id).password) THEN InvalidCredentials
    ELSE Ok

LoginUser(p, identifier, password) ==
    /\ Begin(p)
    /\ LET r == Request("loginUser") @@
                [identifier |-> identifier, password |-> password, userId |-> 0,
                 tokens |-> NoTokens]
           id == LoginLookup(identifier)
       IN  IF LoginVerdict(id, password) # Ok
           THEN /\ Finish(p, r, LoginVerdict(id, password))
                /\ UNCHANGED issued
           ELSE /\ Issue(getUser(id), id)
                /\ Finish(p, [r EXCEPT !.userId = id,
                                       !.tokens = generateTokens(getUser(id), id, now)], Ok)
    /\ UNCHANGED <<users, rolePermissions, now, users0, content>>

\* Mutant: the current password is not verified.
ChangePasswordVerdict_NoCurrentCheck(userId, currentPassword, newPassword) ==
    IF ~ getUser(userId).exists THEN UserNotFound
    ELSE IF Len(newPassword) < 8 THEN NewPasswordLength
    ELSE Ok

ChangePasswordVerdict(userId, currentPassword, newPassword) ==
    IF ~ getUser(userId).exists THEN UserNotFound
    ELSE IF ~ bcryptCompare(currentPassword, getUser(userId).password)
         THEN CurrentPasswordIncorrect
    ELSE IF Len(newPassword) < 8 THEN NewPasswordLength
    ELSE Ok

ChangePassword(p, userId, currentPassword, newPassword) ==
    /\ Begin(p)
    /\ LET r == Request("changePassword") @@
                [userId |-> userId, currentPassword |-> currentPassword,
                 newPassword |-> newPassword]
           verdict == ChangePasswordVerdict(userId, currentPassword, newPassword)
       IN  /\ Finish(p, r, verdict)
           /\ users' = IF verdict = Ok
                       THEN [users EXCEPT ![userId].password = bcryptHash(newPassword)]
                       ELSE users
    /\ UNCHANGED <<rolePermissions, issued, now, users0, content>>

\* The cooldown test of changeUsername, and the days it reports.
CooldownActive(user) ==
    /\ user.lastUsernameChange # Null
    /\ now - user.lastUsernameChange < USERNAME_CHANGE_COOLDOWN

daysRemaining(user) ==
    Ceil(USERNAME_CHANGE_COOLDOWN - (now - user.lastUsernameChange), DayMs)

ChangeUsernameVerdict(userId, newUsername) ==
    IF ~ getUser(userId).exists THEN UserNotFound
    ELSE IF CooldownActive(getUser(userId)) THEN UsernameCooldown
    ELSE IF Len(newUsername) < 3 \/ Len(newUsername) > 50 THEN UsernameLength
    ELSE IF getUserByUsername(newUsername) # 0 /\ getUserByUsername(newUsername) # userId
         THEN UsernameTaken
    ELSE Ok

ChangeUsername(p, userId, newUsername) ==
    /\ Begin(p)
    /\ LET verdict == ChangeUsernameVerdict(userId, newUsername)
           r == Request("changeUsername") @@
                [userId |-> userId, newUsername |-> newUsername,
                 daysRemaining |-> IF verdict = UsernameCooldown
                                   THEN daysRemaining(getUser(userId)) ELSE 0,
                 user |-> getUser(userId),
                 changedAt |-> IF verdict = Ok THEN now ELSE Null]
       IN  /\ Finish(p, r, verdict)
           /\ users' = IF verdict = Ok
                       THEN [users EXCEPT ![userId].username = newUsername,
                                          ![userId].lastUsernameChange = now]
                       ELSE users
    /\ UNCHANGED <<rolePermissions, issued, now, users0, content>>

\* changeUsername, one storage statement at a time.
CallChangeUsername(p, userId, newUsername) ==
    /\ Begin(p)
    /\ Goto(p, Request("changeUsername") @@
                [userId |-> userId, newUsername |-> newUsername, daysRemaining |-> 0,
                 user |-> NoRow, changedAt |-> Null],
            "cun_getUser")
    /\ UNCHANGED <<users, rolePermissions, issued, now, users0, content>>

\* const user = await storage.getUser(userId), then the cooldown and the
\* length checks, up to the next await.
ChangeNameGetUser(p) ==
    /\ pc[p] = "cun_getUser"
    /\ LET r == req[p]
           user == getUser(r.userId)
           r2 == [r EXCEPT !.user = user]
       IN  IF ~ user.exists THEN Finish(p, r, UserNotFound)
           ELSE IF CooldownActive(user)
                THEN Finish(p, [r2 EXCEPT !.daysRemaining = daysRemaining(user)],
                            UsernameCooldown)
           ELSE IF Len(r.newUsername) < 3 \/ Len(r.newUsername) > 50
                THEN Finish(p, r2, UsernameLength)
           ELSE Goto(p, r2, "cun_lookup")
    /\ UNCHANGED <<users, rolePermissions, issued, now, calls, users0, content>>

\* const existingUser = await storage.getUserByUsername(newUsername); then
\* storage.updateUser is called with lastUsernameChange: new Date().
ChangeNameLookup(p) ==
    /\ pc[p] = "cun_lookup"
    /\ LET r == req[p]
           existingUser == getUserByUsername(r.newUsername)
       IN  IF existingUser # 0 /\ existingUser # r.userId
           THEN Finish(p, r, UsernameTaken)
           ELSE Goto(p, [r EXCEPT !.changedAt = now], "cun_update")
    /\ UNCHANGED <<users, rolePermissions, issued, now, calls, users0, content>>

\* users.username is declared unique(): the database refuses an UPDATE that
\* would give two rows the same username.
UsernameUniqueViolated(id, username) ==
    \E j \in UserIds : j # id /\ users[j].exists /\ users[j].username = username

\* updateUser: await db.update(users).set({username, lastUsernameChange})
\* .where(id = userId).returning()
ChangeNameUpdate(p) ==
    /\ pc[p] = "cun_update"
    /\ LET r == req[p]
       IN  IF UsernameUniqueViolated(r.userId, r.newUsername)
           THEN Finish(p, r, UniqueViolation) /\ UNCHANGED users
           ELSE IF ~ getUser(r.userId).exists
           THEN Finish(p, r, UpdateUsernameFailed) /\ UNCHANGED users
           ELSE /\ users' = [users EXCEPT ![r.userId].username = r.newUsername,
                                           ![r.userId].lastUsernameChange = r.changedAt]
                /\ Finish(p, r, Ok)
    /\ UNCHANGED <<rolePermissions, issued, now, calls, users0, content>>

\* `x && x.length > n`: a field that is not given is not measured.
TooLong(text, n) == text # Absent /\ Len(text) > n

UpdateProfileVerdict(userId, displayName, bio) ==
    IF ~ getUser(userId).exists THEN UserNotFound
    ELSE IF TooLong(displayName, 100) THEN DisplayNameLength
    ELSE IF TooLong(bio, 500) THEN BioLength
    ELSE Ok

\* Mutant: a field that is not given is cleared.
SetField_Overwrite(old, new) == new

\* db.update(users).set(profileData): a field that is undefined is left as it is.
SetField(old, new) == IF new = Absent THEN old ELSE new

UpdateProfile(p, userId, displayName, bio, avatarUrl) ==
    /\ Begin(p)
    /\ LET r == Request("updateProfile") @@
                [userId |-> userId, displayName |-> displayName, bio |-> bio,
                 avatarUrl |-> avatarUrl]
           verdict == UpdateProfileVerdict(userId, displayName, bio)
       IN  /\ Finish(p, r, verdict)
           /\ users' = IF verdict = Ok
                       THEN [users EXCEPT
                               ![userId].displayName = SetField(@, displayName),
                               ![userId].bio = SetField(@, bio),
                               ![userId].avatarUrl = SetField(@, avatarUrl)]
                       ELSE users
    /\ UNCHANGED <<rolePermissions, issued, now, users0, content>>

\* POST /api/auth/refresh: verifyRefreshToken, storage.getUser, generateTokens.
PostRefresh(p, token) ==
    /\ Begin(p)
    /\ LET r == Request("refresh") @@ [token |-> token, userId |-> 0, tokens |-> NoTokens]
           id == verifyRefreshToken(token, now)
       IN  IF id = 0
           THEN /\ Finish(p, r, InvalidRefreshToken)
                /\ UNCHANGED issued
           ELSE IF ~ getUser(id).exists
           THEN /\ Finish(p, r, UserNotFound)
                /\ UNCHANGED issued
           ELSE /\ Issue(getUser(id), id)
                /\ Finish(p, [r EXCEPT !.userId = id,
                                       !.tokens = generateTokens(getUser(id), id, now)], Ok)
    /\ UNCHANGED <<users, rolePermissions, now, users0, content>>

\* Time passes between requests.
Tick(t) ==
    /\ t > now
    /\ now' = t
    /\ UNCHANGED <<users, rolePermissions, issued, pc, req, calls, users0, content>>

----------------------------------------------------------------------------
(* Anime, episodes and comments: the read routes, publish, and comment edit *)

AnimeIds == 1 .. 3
CommentIds == 1 .. 2

AnimeNotFound == "Anime not found"
CommentNotFound == "Comment not found"
CommentContentRequired == "Comment content is required"

NoAnime == [exists |-> FALSE, title |-> <<>>, status |-> Absent, createdAt |-> Null]
NoComment == [exists |-> FALSE, userId |-> 0, animeId |-> 0, content |-> Absent]

\* A query parameter or body field that JavaScript treats as true: present
\* and not the empty string.  A search is a sequence of characters, empty
\* when the parameter is missing too.
Truthy(x) == x # Absent /\ x # ""

\* The letters of the titles, folded to lower case.
Lower(c) ==
    IF c = "N" THEN "n" ELSE IF c = "A" THEN "a" ELSE IF c = "R" THEN "r" ELSE c

\* Postgres ILIKE on strings given as sequences of characters: % matches any
\* run of characters, _ any one character, letters match in either case.
RECURSIVE Like(_, _)
Like(pattern, text) ==
    IF pattern = <<>> THEN text = <<>>
    ELSE IF Head(pattern) = "%"
         THEN Like(Tail(pattern), text) \/ (text # <<>> /\ Like(pattern, Tail(text)))
    ELSE /\ text # <<>>
         /\ Head(pattern) = "_" \/ Lower(Head(pattern)) = Lower(Head(text))
         /\ Like(Tail(pattern), Tail(text))

\* ORDER BY createdAt DESC over a set of anime ids.
OrderByCreatedAtDesc(ids) ==
    CHOOSE s \in [1 .. Cardinality(ids) -> ids] :
        /\ \A i, j \in DOMAIN s : i # j => s[i] # s[j]
        /\ \A i, j \in DOMAIN s : i < j => anime[s[i]].createdAt >= anime[s[j]].createdAt

\* ORDER BY episodeNumber over a set of episode rows.
OrderByEpisodeNumber(rows) ==
    CHOOSE s \in [1 .. Cardinality(rows) -> rows] :
        /\ \A i, j \in DOMAIN s : i # j => s[i] # s[j]
        /\ \A i, j \in DOMAIN s : i < j => s[i].episodeNumber <= s[j].episodeNumber

getAnime(id) == IF id \in AnimeIds /\ anime[id].exists THEN anime[id] ELSE NoAnime

getAnimeByStatus(status) ==
    OrderByCreatedAtDesc({a \in AnimeIds : anime[a].exists /\ anime[a].status = status})

searchAnime(query, status) ==
    OrderByCreatedAtDesc(
        {a \in AnimeIds :
            /\ anime[a].exists
            /\ Like(<<"%">> \o query \o <<"%">>, anime[a].title)
            /\ Truthy(status) => anime[a].status = status})

getPublishedAnime ==
    OrderByCreatedAtDesc({a \in AnimeIds : anime[a].exists /\ anime[a].status = "published"})

getEpisodesByAnime(animeId) ==
    OrderByEpisodeNumber({e \in episodes : e.animeId = animeId})

\* optionalAuth: req.user, or no user when there is no token, the token does
\* not verify, or its user is gone.
optionalAuth(token) ==
    IF token = NoToken THEN NoRow
    ELSE IF jwtVerify(token, now) # "ok" THEN NoRow
    ELSE getUser(token.userId)

\* What a request to a content route records: the bearer token it carried,
\* the user that token stands for when it arrived and the tables as they were
\* then (the code reads neither of the last three), and the rows it returned.
ContentRequest(op, token) ==
    Request(op) @@
    [token |-> token, viewer |-> optionalAuth(token), animeAtCall |-> anime,
     commentsAtCall |-> comments, returnedAnime |-> <<>>, returnedEpisodes |-> <<>>]

\* GET /api/anime
GetAnimeList(p, token, search, status) ==
    /\ Begin(p)
    /\ LET r == [search |-> search, status |-> status] @@ ContentRequest("getAnimeList", token)
           list == IF search # <<>> THEN searchAnime(search, status)
                   ELSE IF Truthy(status) THEN getAnimeByStatus(status)
                   ELSE getPublishedAnime
       IN  Finish(p, [r EXCEPT !.returnedAnime = list], Ok)
    /\ UNCHANGED <<users, rolePermissions, issued, now, users0, content>>

\* GET /api/anime/:id
GetAnimeById(p, token, id) ==
    /\ Begin(p)
    /\ LET r == [id |-> id] @@ ContentRequest("getAnimeById", token)
           user == optionalAuth(token)
           row == getAnime(id)
       IN  IF ~ row.exists THEN Finish(p, r, AnimeNotFound)
           ELSE IF row.status = "draft" /\ (~ user.exists \/ ~ hasPermission(user, "admin"))
                THEN Finish(p, r, AnimeNotFound)
           ELSE Finish(p, [r EXCEPT !.returnedAnime = <<id>>,
                                    !.returnedEpisodes = getEpisodesByAnime(id)], Ok)
    /\ UNCHANGED <<users, rolePermissions, issued, now, users0, content>>

\* GET /api/anime/:animeId/episodes: no middleware, a bearer token is not read.
GetAnimeEpisodes(p, token, animeId) ==
    /\ Begin(p)
    /\ LET r == [id |-> animeId] @@ ContentRequest("getAnimeEpisodes", token)
       IN  Finish(p, [r EXCEPT !.returnedEpisodes = getEpisodesByAnime(animeId)], Ok)
    /\ UNCHANGED <<users, rolePermissions, issued, now, users0, content>>

\* authenticateToken, run to its end for a request that carries a token:
\* the outcome, Ok when next() is called.
authenticateToken(token) ==
    IF jwtVerify(token, now) = "TokenExpiredError" THEN TokenExpired
    ELSE IF jwtVerify(token, now) = "JsonWebTokenError" THEN InvalidToken
    ELSE IF ~ getUser(token.userId).exists THEN InvalidToken
    ELSE Ok

\* PUT /api/anime/:id/publish, behind requireAdmin.
PutAnimePublish(p, token, id) ==
    /\ Begin(p)
    /\ LET r == [id |-> id] @@ ContentRequest("publishAnime", token)
           user == getUser(token.userId)
           verdict == IF authenticateToken(token) # Ok THEN authenticateToken(token)
                      ELSE IF ~ requireRole("admin", user.role) THEN InsufficientPermissions
                      ELSE IF ~ getAnime(id).exists THEN AnimeNotFound
                      ELSE Ok
       IN  /\ Finish(p, r, verdict)
           /\ anime' = IF verdict = Ok THEN [anime EXCEPT ![id].status = "published"]
                       ELSE anime
    /\ UNCHANGED <<users, rolePermissions, issued, now, users0, episodes, comments>>

\* storage.updateComment: the row with that id, whoever wrote it, gets the
\* content; the table afterwards.  It returns no row when none has that id.
updateComment(id, text) ==
    IF id \in CommentIds /\ comments[id].exists
    THEN [comments EXCEPT ![id].content = text]
    ELSE comments

\* PUT /api/comments/:id, behind authenticateToken.
PutComment(p, token, id, text) ==
    /\ Begin(p)
    /\ LET r == [id |-> id, content |-> text] @@ ContentRequest("updateComment", token)
           verdict == IF authenticateToken(token) # Ok THEN authenticateToken(token)
                      ELSE IF ~ Truthy(text) THEN CommentContentRequired
                      ELSE IF ~ (id \in CommentIds /\ comments[id].exists)
                           THEN CommentNotFound
                      ELSE Ok
       IN  /\ Finish(p, r, verdict)
           /\ comments' = IF verdict \in {Ok, CommentNotFound}
                          THEN updateComment(id, text) ELSE comments
    /\ UNCHANGED <<users, rolePermissions, issued, now, users0, anime, episodes>>

----------------------------------------------------------------------------
(* Initial states *)

InitUsername(i) == "user" \o ToString(i)
InitEmail(i) == "user" \o ToString(i) \o "@x.com"
InitPassword(i) == "password" \o ToString(i)

InitRow(i, role) ==
    [exists |-> TRUE, username |-> InitUsername(i), email |-> InitEmail(i),
     password |-> bcryptHash(InitPassword(i)),
     displayName |-> Absent, bio |-> Absent, avatarUrl |-> Absent,
     role |-> role, lastUsernameChange |-> Null]

\* The roles of the users that exist initially: at least one site owner, and
\* (ids being interchangeable) listed from the highest rank down.
InitRoles(n) ==
    {roleOf \in [1 .. n -> Roles] :
        /\ roleOf[1] = "site_owner"
        /\ \A i \in 1 .. n - 1 : roleHierarchy[roleOf[i]] >= roleHierarchy[roleOf[i + 1]]}

\* The database holds users 1..n, with or without room for one more; no role
\* change is recorded yet; every user has logged in at time 0.
Init ==
    /\ \E n \in {MaxUsers - 1, MaxUsers} : \E roleOf \in InitRoles(n) :
          users = [i \in UserIds |-> IF i <= n THEN InitRow(i, roleOf[i]) ELSE NoRow]
    /\ users0 = users
    /\ rolePermissions = <<>>
    /\ now = 0
    /\ issued = UNION {{generateTokens(users[i], i, 0).accessToken,
                        generateTokens(users[i], i, 0).refreshToken} :
                       i \in {j \in UserIds : users[j].exists}}
    /\ pc = [p \in Procs |-> "idle"]
    /\ req = [p \in Procs |-> Idle]
    /\ calls = 0
    /\ anime = [a \in AnimeIds |->
                  IF a = 1 THEN [exists |-> TRUE, title |-> <<"N", "a", "n", "a">>,
                                 status |-> "draft", createdAt |-> 2]
                  ELSE IF a = 2 THEN [exists |-> TRUE,
                                      title |-> <<"N", "a", "r", "u", "t", "o">>,
                                      status |-> "published", createdAt |-> 1]
                  ELSE NoAnime]
    /\ episodes = {[id |-> 1, animeId |-> 1, episodeNumber |-> 1],
                   [id |-> 2, animeId |-> 2, episodeNumber |-> 2],
                   [id |-> 3, animeId |-> 2, episodeNumber |-> 1]}
    /\ comments = [c \in CommentIds |->
                     IF c = 1 THEN [exists |-> TRUE, userId |-> 2, animeId |-> 2,
                                    content |-> "first"]
                     ELSE NoComment]

----------------------------------------------------------------------------
(* Spec: role changes of AuthService.changeUserRole running concurrently,   *)
(* with storage statements that may fail.                                   *)

\* The roles the concurrent requests ask for: the lowest and the highest.
RaceRoles == {"user", "site_owner"}

Next ==
    \E p \in Procs :
        \/ \E t \in UserIds, r \in RaceRoles, a \in UserIds : CallChangeUserRole(p, t, r, a)
        \/ ChangeRoleGetAdmin(p)
        \/ ChangeRoleGetTarget(p)
        \/ ChangeRoleCountOwners(p)
        \/ UpdateRoleGetUser(p)
        \/ UpdateRoleWrite(p)
        \/ UpdateRoleInsert(p)
        \/ StorageFails(p)
        \/ Return(p)

Spec == Init /\ [][Next]_vars

----------------------------------------------------------------------------
(* SpecSeq: every operation, one request at a time: a request arrives only  *)
(* when no other is in flight, and every storage statement completes.       *)

AccessTokens == {t \in issued : t.aud = "ani3lix-client"}
Forged(token) == [token EXCEPT !.key = "not the secret"]
Presented == issued \cup {Forged(t) : t \in AccessTokens}

SeqUsernames == {InitUsername(1), "dave"}
SeqEmails == {InitEmail(1), "dave@x.com"}
SeqPasswords == {InitPassword(1), "password9"}
SeqClock == {0, JWT_EXPIRES_IN * 1000}

\* No request is in flight.
Quiet == \A q \in Procs : pc[q] = "idle"

NextSeq ==
    \/ \E t \in UserIds, r \in Roles, a \in UserIds :
          Quiet /\ CallChangeUserRole(1, t, r, a)
    \/ \E tok \in AccessTokens, t \in UserIds, r \in Roles :
          Quiet /\ PutUserRole(1, tok, t, r)
    \/ \E tok \in Presented : Quiet /\ GetAuthMe(1, tok)
    \/ \E tok \in Presented : Quiet /\ PostRefresh(1, tok)
    \/ \E u \in SeqUsernames, e \in SeqEmails :
          Quiet /\ RegisterUser(1, [username |-> u, email |-> e, password |-> "password9"])
    \/ \E i \in {InitUsername(1), InitEmail(1)}, pw \in SeqPasswords :
          Quiet /\ LoginUser(1, i, pw)
    \/ \E pw \in SeqPasswords : Quiet /\ ChangePassword(1, 1, pw, "password9")
    \/ \E u \in SeqUsernames : Quiet /\ ChangeUsername(1, 1, u)
    \/ \E d \in {Absent, "Dave"} : Quiet /\ UpdateProfile(1, 1, d, Absent, Absent)
    \/ \E t \in SeqClock : Quiet /\ Tick(t)
    \/ ChangeRoleStep(1)
    \/ Return(1)

SpecSeq == Init /\ [][NextSeq]_vars

----------------------------------------------------------------------------
(* SpecToken: tokens over time.  Logins, refreshes, authenticated requests   *)
(* and role and username changes, one request at a time; a response stays   *)
(* in its slot until the caller takes it.                                   *)

\* No request is between two of its statements.
Settled == \A q \in Procs : pc[q] \in {"idle", "done"}

\* Instants around the two lifetimes, for tokens issued at 0 ms and at 999 ms.
TokenClock ==
    {0, 999, JWT_EXPIRES_IN * 1000 - 1, JWT_EXPIRES_IN * 1000, JWT_EXPIRES_IN * 1000 + 1000,
     REFRESH_TOKEN_EXPIRES_IN * 1000, REFRESH_TOKEN_EXPIRES_IN * 1000 + 1000}

NextToken ==
    \/ \E p \in Procs :
          \/ \E u \in {1, 2} : Settled /\ LoginUser(p, InitUsername(u), InitPassword(u))
          \/ \E tok \in issued : Settled /\ GetAuthMe(p, tok)
          \/ \E tok \in issued : Settled /\ PostRefresh(p, tok)
          \/ \E r \in {"user", "moderator"} : Settled /\ CallChangeUserRole(p, 2, r, 1)
          \/ Settled /\ ChangeUsername(p, 2, "dave")
          \/ AuthGetUser(p)
          \/ ChangeRoleGetAdmin(p)
          \/ ChangeRoleGetTarget(p)
          \/ ChangeRoleCountOwners(p)
          \/ UpdateRoleGetUser(p)
          \/ UpdateRoleWrite(p)
          \/ UpdateRoleInsert(p)
          \/ Return(p)
    \/ \E t \in TokenClock : Settled /\ Tick(t)

SpecToken == Init /\ [][NextToken]_vars

----------------------------------------------------------------------------
(* SpecAcct: accounts.  Registrations, logins, password and username        *)
(* changes, one request at a time; a response stays in its slot until the   *)
(* caller takes it.                                                         *)

\* A username of 51 characters.
LongUsername == "abcdefghijklmnopqrstuvwxyzabcdefghijklmnopqrstuvwxy"

AcctUsernames == {"dave", InitEmail(1), InitUsername(1), "ab"}
AcctEmails == {"dave@x.com", InitEmail(1)}
AcctPasswords == {InitPassword(1), "password9"}

\* Bodies of POST /api/auth/register: with and without a role key, one that
\* lacks a required field, and one whose email is the username of user 1.
RegisterBodies ==
    {[username |-> u, email |-> e, password |-> pw] :
        u \in AcctUsernames, e \in AcctEmails, pw \in {InitPassword(1), "short"}}
    \cup
    {[username |-> u, email |-> "dave@x.com", password |-> InitPassword(1), role |-> "admin"] :
        u \in {"dave", "ab"}}
    \cup
    {[username |-> "dave", email |-> "dave@x.com"],
     [username |-> "dave", email |-> InitUsername(1), password |-> "password9"]}

NextAcct ==
    \E p \in Procs :
        \/ \E body \in RegisterBodies : PostRegister(p, body)
        \/ RegisterUser(p, [username |-> LongUsername, email |-> "dave@x.com",
                            password |-> InitPassword(1)])
        \/ \E i \in {"dave", "dave@x.com", InitUsername(1), InitEmail(1)},
              pw \in AcctPasswords : LoginUser(p, i, pw)
        \/ \E u \in {1, MaxUsers}, cur \in AcctPasswords, new \in {"password9", "short"} :
              ChangePassword(p, u, cur, new)
        \/ \E u \in {1, 2}, n \in {"dave", InitUsername(2)} : ChangeUsername(p, u, n)
        \/ Return(p)

SpecAcct == Init /\ [][NextAcct]_vars

----------------------------------------------------------------------------
(* SpecCooldown: changeUsername over time, one request at a time.            *)

ChangeNameStep(p) ==
    \/ ChangeNameGetUser(p)
    \/ ChangeNameLookup(p)
    \/ ChangeNameUpdate(p)

NewUsernames == {"dave", "erin"}

\* Instants around the cooldown, for a username changed at 0 ms and at 1000 ms.
CooldownClock ==
    {0, 1, 1000, DayMs, DayMs + 1,
     USERNAME_CHANGE_COOLDOWN - 1000, USERNAME_CHANGE_COOLDOWN - 1,
     USERNAME_CHANGE_COOLDOWN, USERNAME_CHANGE_COOLDOWN + 999,
     USERNAME_CHANGE_COOLDOWN + 1000}

NextCooldown ==
    \/ \E p \in Procs :
          \/ \E u \in {1, MaxUsers}, n \in NewUsernames \cup {"ab"} :
                Settled /\ CallChangeUsername(p, u, n)
          \/ ChangeNameStep(p)
          \/ Return(p)
    \/ \E t \in CooldownClock : Settled /\ Tick(t)

SpecCooldown == Init /\ [][NextCooldown]_vars

----------------------------------------------------------------------------
(* SpecName: changeUsername requests running concurrently, with storage     *)
(* statements that may fail.                                                *)

NameClock == {0, USERNAME_CHANGE_COOLDOWN - 1000, USERNAME_CHANGE_COOLDOWN}

NextName ==
    \/ \E p \in Procs :
          \/ \E u \in {1, 2}, n \in NewUsernames : CallChangeUsername(p, u, n)
          \/ ChangeNameGetUser(p)
          \/ ChangeNameLookup(p)
          \/ ChangeNameUpdate(p)
          \/ StorageFails(p)
          \/ Return(p)
    \/ \E t \in NameClock : Settled /\ Tick(t)

SpecName == Init /\ [][NextName]_vars

----------------------------------------------------------------------------
(* SpecProfile: updateProfile, one request at a time.                        *)

Chars10 == "0123456789"
Chars100 ==
    Chars10 \o Chars10 \o Chars10 \o Chars10 \o Chars10 \o
    Chars10 \o Chars10 \o Chars10 \o Chars10 \o Chars10
Chars500 == Chars100 \o Chars100 \o Chars100 \o Chars100 \o Chars100

\* Values at and just over the two limits, and an omitted field.
ProfileNames == {Absent, "Dave", Chars100, Chars100 \o "x"}
ProfileBios == {Absent, "bio", Chars500, Chars500 \o "x"}
ProfileAvatars == {Absent, "https://x.com/a.png"}

NextProfile ==
    \E p \in Procs :
        \/ \E d \in ProfileNames, b \in ProfileBios, a \in ProfileAvatars :
              UpdateProfile(p, MaxUsers, d, b, a)
        \/ Return(p)

SpecProfile == Init /\ [][NextProfile]_vars

----------------------------------------------------------------------------
(* SpecGate: role-gated requests and role changes, one request at a time.   *)

GateClock == {0, JWT_EXPIRES_IN * 1000}

NextGate ==
    \/ \E p \in Procs :
          \/ \E tok \in AccessTokens, m \in Roles : Settled /\ GatedRequest(p, tok, m)
          \/ \E tok \in AccessTokens, t \in UserIds, r \in {"user", "admin"} :
                Settled /\ PutUserRole(p, tok, t, r)
          \/ ChangeRoleStep(p)
          \/ Return(p)
    \/ \E t \in GateClock : Settled /\ Tick(t)

SpecGate == Init /\ [][NextGate]_vars

----------------------------------------------------------------------------
(* SpecContent: the anime read routes, publish and comment edit, one request *)
(* at a time, with and without a bearer token, before and after the access   *)
(* tokens expire.                                                            *)

ContentSearches == {<<>>, <<"n", "a">>, <<"r", "_", "t">>, <<"%">>}

NextContent ==
    \/ \E tok \in AccessTokens \cup {NoToken}, search \in ContentSearches,
          status \in {Absent, "draft", "published"} :
          Quiet /\ GetAnimeList(1, tok, search, status)
    \/ \E tok \in AccessTokens \cup {NoToken}, id \in AnimeIds :
          Quiet /\ GetAnimeById(1, tok, id)
    \/ \E tok \in AccessTokens \cup {NoToken}, id \in AnimeIds :
          Quiet /\ GetAnimeEpisodes(1, tok, id)
    \/ \E tok \in AccessTokens, id \in AnimeIds : Quiet /\ PutAnimePublish(1, tok, id)
    \/ \E tok \in AccessTokens, id \in CommentIds, text \in {"edited", ""} :
          Quiet /\ PutComment(1, tok, id, text)
    \/ \E p \in Procs : Return(p)
    \/ \E t \in SeqClock : Quiet /\ Tick(t)

SpecContent == Init /\ [][NextContent]_vars

----------------------------------------------------------------------------
(* Properties *)

\* A changeUserRole request that is over, whichever way it came in.
RoleCallDone(p) == pc[p] = "done" /\ req[p].op = "changeUserRole"

\* The request got as far as AuthService.changeUserRole with a known actor:
\* it was a direct call, or its bearer token was accepted by jwt.verify.
Served(r) ==
    /\ r.usersAtCall[r.adminUserId].exists
    /\ ~ r.viaRoute \/ jwtVerify(r.token, now) = "ok"

ActorRoleAtCall(r) == r.usersAtCall[r.adminUserId].role
SubjectRoleAtCall(r) == r.usersAtCall[r.targetUserId].role
OwnersAtCall(r) ==
    {i \in UserIds : r.usersAtCall[i].exists /\ r.usersAtCall[i].role = "site_owner"}
Untouched(r) == users = r.usersAtCall /\ rolePermissions = r.logAtCall
SiteOwners == getUsersByRole("site_owner")

\* C1: in every state reached by running registerUser, loginUser,
\* changePassword, changeUsername, updateProfile and changeUserRole one
\* request at a time from a state with a site owner, at least one user
\* holds site_owner.
C1_LastSiteOwnerSequential == Cardinality(SiteOwners) >= 1

\* C1 witness: a site owner has been demoted, and a site owner remains.
C1_Witness ==
    /\ \E i \in 1 .. Len(rolePermissions) :
          /\ rolePermissions[i].previousRole = "site_owner"
          /\ rolePermissions[i].newRole # "site_owner"
    /\ Cardinality(SiteOwners) = 1
    /\ Quiet

\* C2: two concurrent changeUserRole requests that arrived while exactly two
\* users A and B held site_owner, one demoting A and the other demoting B, do
\* not both succeed, and some user holds site_owner in every state.
C2_ConcurrentDemotionsKeepAnOwner ==
    /\ \A p, q \in Procs :
          (/\ p # q
           /\ RoleCallDone(p) /\ RoleCallDone(q)
           /\ Cardinality(OwnersAtCall(req[p])) = 2
           /\ OwnersAtCall(req[q]) = OwnersAtCall(req[p])
           /\ OwnersAtCall(req[p]) = {req[p].targetUserId, req[q].targetUserId}
           /\ req[p].targetUserId # req[q].targetUserId
           /\ req[p].newRole # "site_owner" /\ req[q].newRole # "site_owner")
          => ~ (req[p].result = Ok /\ req[q].result = Ok)
    /\ Cardinality(SiteOwners) >= 1

\* C3: a changeUserRole by an actor whose stored role is admin is rejected
\* when the requested role is admin or site_owner, whatever the subject is
\* (with the "admins cannot create" failure when the subject exists), and
\* changes neither a role nor the audit log; it succeeds when the requested
\* role is user or moderator and the subject is another admin.
C3_AdminCeiling ==
    \A p \in Procs :
        LET r == req[p] IN
        (RoleCallDone(p) /\ Served(r) /\ ActorRoleAtCall(r) = "admin") =>
            /\ r.newRole \in {"admin", "site_owner"} =>
                  /\ r.result # Ok
                  /\ r.usersAtCall[r.targetUserId].exists => r.result = AdminsCannotCreate
                  /\ Untouched(r)
            /\ (/\ r.newRole \in {"user", "moderator"}
                /\ SubjectRoleAtCall(r) = "admin"
                /\ r.targetUserId # r.adminUserId) =>
                  /\ r.result = Ok
                  /\ users[r.targetUserId].role = r.newRole

\* C3 witness: an admin has demoted another admin.
C3_Witness ==
    \E p \in Procs :
        /\ RoleCallDone(p) /\ Served(req[p])
        /\ ActorRoleAtCall(req[p]) = "admin"
        /\ SubjectRoleAtCall(req[p]) = "admin"
        /\ req[p].targetUserId # req[p].adminUserId
        /\ req[p].newRole = "moderator"
        /\ req[p].result = Ok
        /\ users[req[p].targetUserId].role = "moderator"

\* C4: no changeUserRole whose actor's stored role is admin changes the role
\* of a subject whose role is site_owner.
C4_AdminNeverChangesSiteOwner ==
    \A p \in Procs :
        LET r == req[p] IN
        (/\ RoleCallDone(p) /\ Served(r)
         /\ ActorRoleAtCall(r) = "admin"
         /\ SubjectRoleAtCall(r) = "site_owner")
        => users[r.targetUserId].role = "site_owner"

\* C5: a site_owner actor changing a site_owner subject to a lower role is
\* denied (last site owner) when the subject is the only site owner, and
\* succeeds when another site owner exists.
C5_SiteOwnerFloor ==
    \A p \in Procs :
        LET r == req[p] IN
        (/\ RoleCallDone(p) /\ Served(r)
         /\ ActorRoleAtCall(r) = "site_owner"
         /\ SubjectRoleAtCall(r) = "site_owner"
         /\ r.newRole # "site_owner")
        => IF OwnersAtCall(r) = {r.targetUserId}
           THEN r.result = CannotDemoteLastSiteOwner /\ Untouched(r)
           ELSE r.result = Ok /\ users[r.targetUserId].role = r.newRole

\* C5 witness: there was one site owner; a second user was promoted to
\* site_owner, and then the original owner was demoted.
C5_Witness ==
    /\ Cardinality({i \in UserIds : users0[i].role = "site_owner"}) = 1
    /\ Len(rolePermissions) = 2
    /\ users0[rolePermissions[1].userId].role # "site_owner"
    /\ rolePermissions[1].newRole = "site_owner"
    /\ users0[rolePermissions[2].userId].role = "site_owner"
    /\ users0[rolePermissions[2].grantedBy].role = "site_owner"
    /\ rolePermissions[2].newRole # "site_owner"
    /\ \E p \in Procs : RoleCallDone(p) /\ req[p].result = Ok

\* The last-owner case of C6: one site owner, and a request by an existing
\* actor to give that user another role.
LastOwnerTargeted(p) ==
    /\ RoleCallDone(p) /\ Served(req[p])
    /\ OwnersAtCall(req[p]) = {req[p].targetUserId}
    /\ req[p].newRole # "site_owner"

\* C6 as stated: with exactly one site owner, every changeUserRole that
\* targets that user with another role fails with "Cannot demote the last
\* site owner", whoever the actor is and whatever role is requested.
C6_AlwaysCannotDemoteLastSiteOwner ==
    \A p \in Procs :
        LastOwnerTargeted(p) => req[p].result = CannotDemoteLastSiteOwner

\* C6 amended: with exactly one site owner, every changeUserRole that targets
\* that user with another role fails and changes nothing; the failure is
\* "Cannot demote the last site owner" when the actor is a site_owner or an
\* admin asking for user or moderator, the insufficient-permissions failure
\* when the actor is a user or a moderator, and "Admins cannot create other
\* admins or site owners" when an admin asks for admin.
C6_LastOwnerFailureKind ==
    \A p \in Procs :
        LET r == req[p] IN
        LastOwnerTargeted(p) =>
            /\ Untouched(r)
            /\ r.result =
                 IF ActorRoleAtCall(r) \in {"user", "moderator"}
                 THEN (IF r.viaRoute THEN InsufficientPermissions
                       ELSE InsufficientPermissionsToChange)
                 ELSE IF ActorRoleAtCall(r) = "admin" /\ r.newRole = "admin"
                 THEN AdminsCannotCreate
                 ELSE CannotDemoteLastSiteOwner

\* C6 witness: an admin asked to make the only site owner a moderator and was
\* told that the last site owner cannot be demoted.
C6_Witness ==
    \E p \in Procs :
        /\ LastOwnerTargeted(p)
        /\ ActorRoleAtCall(req[p]) = "admin"
        /\ req[p].newRole = "moderator"
        /\ req[p].result = CannotDemoteLastSiteOwner

\* C7: a changeUserRole by an actor whose stored role is user or moderator
\* is rejected with the insufficient-permissions failure, for every existing
\* subject and every requested role, and changes no role and no audit record.
\* (Through the route the middleware rejects it before the subject is looked up.)
C7_UnprivilegedActorRejected ==
    \A p \in Procs :
        LET r == req[p] IN
        (/\ RoleCallDone(p) /\ Served(r)
         /\ ActorRoleAtCall(r) \in {"user", "moderator"}
         /\ r.viaRoute \/ r.usersAtCall[r.targetUserId].exists)
        => /\ r.result = IF r.viaRoute THEN InsufficientPermissions
                         ELSE InsufficientPermissionsToChange
           /\ Untouched(r)

\* C7 witness: a moderator called changeUserRole on a user and was refused.
C7_Witness ==
    \E p \in Procs :
        /\ RoleCallDone(p) /\ ~ req[p].viaRoute
        /\ ActorRoleAtCall(req[p]) = "moderator"
        /\ SubjectRoleAtCall(req[p]) = "user"
        /\ req[p].newRole = "moderator"
        /\ req[p].result = InsufficientPermissionsToChange

\* a is b with at most one row added at the end.
AtMostOneAppended(a, b) ==
    /\ Len(b) \in {Len(a), Len(a) + 1}
    /\ SubSeq(b, 1, Len(a)) = a

AuditOfCall(p) ==
    LET r == req[p] IN
    RoleCallDone(p) =>
        rolePermissions =
            IF r.result = Ok
            THEN Append(r.logAtCall,
                        [userId |-> r.targetUserId, grantedBy |-> r.adminUserId,
                         previousRole |-> SubjectRoleAtCall(r), newRole |-> r.newRole])
            ELSE r.logAtCall

\* C8: a successful changeUserRole appends exactly one record, with the
\* subject, the actor, the subject's role just before the call and the
\* requested role; a rejected one appends none; and no step of any operation
\* changes or removes a record that is in the log.
C8_AuditTrailComplete ==
    /\ [](\A p \in Procs : AuditOfCall(p))
    /\ [][AtMostOneAppended(rolePermissions, rolePermissions')]_vars

\* C8 witness: a site owner made a user a moderator, and the log holds that
\* one record.
C8_Witness ==
    \E p \in Procs :
        /\ RoleCallDone(p) /\ req[p].result = Ok
        /\ ActorRoleAtCall(req[p]) = "site_owner"
        /\ rolePermissions =
             <<[userId |-> req[p].targetUserId, grantedBy |-> req[p].adminUserId,
                previousRole |-> "user", newRole |-> "moderator"]>>

\* The role the audit log says user u has: the newRole of u's latest record,
\* or u's initial role when the log has none.
AuditedRole(u) ==
    LET mine == {i \in 1 .. Len(rolePermissions) : rolePermissions[i].userId = u}
    IN  IF mine = {} THEN users0[u].role
        ELSE rolePermissions[CHOOSE i \in mine : \A j \in mine : j <= i].newRole

\* C9: in every state, a role that has been changed has its audit record:
\* every user's stored role is the one the audit log accounts for.
C9_RoleWriteAndAuditAtomic ==
    \A u \in UserIds : users[u].exists => users[u].role = AuditedRole(u)

\* C10: an unexpired refresh token presented as a bearer token to
\* authenticateToken is rejected, and an unexpired access token presented to
\* verifyRefreshToken is rejected.
C10_AudienceSeparation ==
    \A p \in Procs :
        pc[p] = "done" =>
            /\ (req[p].op = "authMe" /\ req[p].token.aud = "ani3lix-refresh")
                  => req[p].result # Ok
            /\ (req[p].op = "refresh" /\ req[p].token.aud = "ani3lix-client")
                  => req[p].result # Ok

\* A response that carried a fresh token pair.
IssuedTokens(p) ==
    /\ pc[p] = "done"
    /\ req[p].op \in {"loginUser", "refresh", "registerUser"}
    /\ req[p].result = Ok

\* Request q presented the access token of p's response as a bearer token.
PresentsAccessOf(q, p) ==
    /\ IssuedTokens(p) /\ pc[q] = "done" /\ req[q].op = "authMe"
    /\ req[q].token = req[p].tokens.accessToken

\* Request q presented the refresh token of p's response to the refresh route.
PresentsRefreshOf(q, p) ==
    /\ IssuedTokens(p) /\ pc[q] = "done" /\ req[q].op = "refresh"
    /\ req[q].token = req[p].tokens.refreshToken

\* C11 as stated: an access token issued at time t verifies to its user at
\* every time before t + 15 minutes and is reported as "Token expired" at
\* every time after t + 15 minutes; a refresh token verifies until t + 7 days
\* and gives null (an invalid-refresh-token response) afterwards.
C11_LifetimeFromIssueInstant ==
    \A p, q \in Procs :
        LET t == req[p].nowAtCall
            t2 == req[q].nowAtCall
        IN  /\ PresentsAccessOf(q, p) =>
                  /\ t2 < t + JWT_EXPIRES_IN * 1000 =>
                        req[q].result = Ok /\ req[q].adminUserId = req[p].userId
                  /\ t2 > t + JWT_EXPIRES_IN * 1000 => req[q].result = TokenExpired
            /\ PresentsRefreshOf(q, p) =>
                  /\ t2 < t + REFRESH_TOKEN_EXPIRES_IN * 1000 =>
                        req[q].result = Ok /\ req[q].userId = req[p].userId
                  /\ t2 > t + REFRESH_TOKEN_EXPIRES_IN * 1000 =>
                        req[q].result = InvalidRefreshToken

\* C11 amended: the lifetimes run in whole seconds from the second of issue.
\* An access token issued in second s verifies to its user in every second
\* before s + 15 minutes and is reported as "Token expired", never as
\* success or as "Invalid token", in every second from s + 15 minutes on; a
\* refresh token verifies in every second before s + 7 days and gives null
\* from then on.
C11_LifetimeInWholeSeconds ==
    \A p, q \in Procs :
        LET s == req[p].nowAtCall \div 1000
            s2 == req[q].nowAtCall \div 1000
        IN  /\ PresentsAccessOf(q, p) =>
                  IF s2 < s + JWT_EXPIRES_IN
                  THEN req[q].result = Ok /\ req[q].adminUserId = req[p].userId
                  ELSE req[q].result = TokenExpired
            /\ PresentsRefreshOf(q, p) =>
                  IF s2 < s + REFRESH_TOKEN_EXPIRES_IN
                  THEN req[q].result = Ok /\ req[q].userId = req[p].userId
                  ELSE req[q].result = InvalidRefreshToken

\* C11 witness: a token pair issued at 999 ms; its access token is presented
\* in the second it expires, less than 15 minutes after it was issued, and is
\* reported as expired.
C11_Witness ==
    \E p, q \in Procs :
        /\ PresentsAccessOf(q, p)
        /\ req[p].nowAtCall = 999
        /\ req[q].nowAtCall = JWT_EXPIRES_IN * 1000
        /\ req[q].result = TokenExpired

\* C12: the refresh token carries no role, and the access token of a
\* successful refresh or login carries the role and the username the user has
\* in the users table at that time.
C12_RefreshResolvesRole ==
    \A p \in Procs :
        (IssuedTokens(p) /\ req[p].op \in {"refresh", "loginUser"}) =>
            LET r == req[p] IN
            /\ r.tokens.refreshToken.role = Absent
            /\ r.tokens.accessToken.userId = r.userId
            /\ r.tokens.accessToken.role = r.usersAtCall[r.userId].role
            /\ r.tokens.accessToken.username = r.usersAtCall[r.userId].username

\* C12 witness: a refresh token issued while its user had another role has
\* been refreshed, and the new access token carries the user's new role.
C12_Witness ==
    \E p \in Procs :
        /\ IssuedTokens(p) /\ req[p].op = "refresh"
        /\ req[p].token.aud = "ani3lix-refresh"
        /\ req[p].token.iat = 0
        /\ users0[req[p].userId].role # req[p].usersAtCall[req[p].userId].role
        /\ req[p].tokens.accessToken.role = req[p].usersAtCall[req[p].userId].role

\* Request p of kind op is answered in this step (the account operations run
\* from arrival to response in one step).
Completes(p, op) == pc[p] = "idle" /\ pc'[p] = "done" /\ req'[p].op = op

\* The accounts of a users table that hold the identifier as email or username.
Holders(table, identifier) ==
    {j \in UserIds : /\ table[j].exists
                     /\ identifier \in {table[j].email, table[j].username}}

\* A login with a password that matches no account holding the identifier.
LoginMismatch(p) ==
    /\ pc[p] = "done" /\ req[p].op = "loginUser"
    /\ \A j \in Holders(req[p].usersAtCall, req[p].identifier) :
          ~ bcryptCompare(req[p].password, req[p].usersAtCall[j].password)

\* C13: a loginUser whose password does not match gets the same "Invalid
\* credentials" failure and no tokens whether or not the identifier belongs
\* to an account, and issues no token.
C13_LoginEnumerationResistance ==
    /\ [](\A p \in Procs : LoginMismatch(p) =>
              /\ req[p].result = InvalidCredentials
              /\ req[p].tokens = NoTokens /\ req[p].userId = 0)
    /\ [][\A p \in Procs :
              (Completes(p, "loginUser") /\ req'[p].result # Ok) => issued' = issued]_vars

\* C13 witness: one login with an identifier no account has and one with a
\* known identifier and a wrong password have been answered alike.
C13_Witness ==
    \E p, q \in Procs :
        /\ LoginMismatch(p) /\ Holders(req[p].usersAtCall, req[p].identifier) = {}
        /\ LoginMismatch(q) /\ Holders(req[q].usersAtCall, req[q].identifier) # {}
        /\ req[p].result = req[q].result /\ req[p].tokens = req[q].tokens

\* User j was created by registerUser and its stored password is pw's hash.
Registered(table, j, pw) ==
    /\ table[j].exists /\ ~ users0[j].exists
    /\ bcryptCompare(pw, table[j].password)

\* The account loginUser resolves an identifier to: by email first.
ResolvedInTable(table, identifier) ==
    LET byEmail == {j \in UserIds : table[j].exists /\ table[j].email = identifier}
        byName == {j \in UserIds : table[j].exists /\ table[j].username = identifier}
    IN  IF byEmail # {} THEN byEmail ELSE byName

\* C14 as stated: for a user created by registerUser(username, email,
\* password), loginUser(username, password) and loginUser(email, password)
\* succeed with that user's id; and a successful login is to the account
\* that has the identifier as email, or as username when no account has it
\* as email.
C14_RegisteredLoginAlwaysSucceeds ==
    \A q \in Procs :
        (pc[q] = "done" /\ req[q].op = "loginUser") =>
            LET r == req[q] IN
            /\ \A j \in UserIds :
                  (/\ Registered(r.usersAtCall, j, r.password)
                   /\ r.identifier \in {r.usersAtCall[j].username, r.usersAtCall[j].email})
                  => r.result = Ok /\ r.userId = j
            /\ r.result = Ok => r.userId \in ResolvedInTable(r.usersAtCall, r.identifier)

\* C14 amended: loginUser(email, password) succeeds with the registered
\* user's id; loginUser(username, password) does so when no account has that
\* username as its email; resolution is by email first, then by username.
C14_RegisteredLoginSucceeds ==
    \A q \in Procs :
        (pc[q] = "done" /\ req[q].op = "loginUser") =>
            LET r == req[q] IN
            /\ \A j \in UserIds :
                  (/\ Registered(r.usersAtCall, j, r.password)
                   /\ \/ r.identifier = r.usersAtCall[j].email
                      \/ /\ r.identifier = r.usersAtCall[j].username
                         /\ \A k \in UserIds : r.usersAtCall[k].email # r.identifier)
                  => r.result = Ok /\ r.userId = j
            /\ r.result = Ok => r.userId \in ResolvedInTable(r.usersAtCall, r.identifier)

\* C14 witness: a registration succeeded, and the login with its username
\* and password returned the id of the registration.
C14_Witness ==
    \E p, q \in Procs :
        /\ pc[p] = "done" /\ req[p].op = "registerUser" /\ req[p].result = Ok
        /\ pc[q] = "done" /\ req[q].op = "loginUser" /\ req[q].result = Ok
        /\ req[q].identifier = req[p].username /\ req[q].password = req[p].password
        /\ req[q].userId = req[p].userId
        /\ ~ users0[req[p].userId].exists

\* No two users share a username, and no two share an email.
UniqueNames ==
    \A i, j \in UserIds :
        (i # j /\ users[i].exists /\ users[j].exists) =>
            /\ users[i].username # users[j].username
            /\ users[i].email # users[j].email

\* C15: with registerUser and changeUsername running one at a time, no two
\* users have the same username and no two the same email; a registerUser
\* with a username in use fails with "Username already exists", one with a
\* free username and an email in use fails with "Email already registered",
\* and neither creates a user or issues a token.
C15_UsernameAndEmailUnique ==
    /\ []UniqueNames
    /\ [][\A p \in Procs :
            Completes(p, "registerUser") =>
                LET r == req'[p]
                    nameUsed == \E j \in UserIds :
                                   users[j].exists /\ users[j].username = r.username
                    emailUsed == \E j \in UserIds :
                                   users[j].exists /\ users[j].email = r.email
                IN  /\ nameUsed => r.result = UsernameExists
                    /\ (~ nameUsed /\ emailUsed) => r.result = EmailRegistered
                    /\ (nameUsed \/ emailUsed) => users' = users /\ issued' = issued]_vars

\* C15 witness: one registration was refused for its username and another
\* for its email.
C15_Witness ==
    \E p, q \in Procs :
        /\ pc[p] = "done" /\ req[p].op = "registerUser" /\ req[p].result = UsernameExists
        /\ pc[q] = "done" /\ req[q].op = "registerUser" /\ req[q].result = EmailRegistered
        /\ \E j \in UserIds : users[j].exists /\ users[j].email = req[q].email
        /\ \A j \in UserIds : users[j].username # req[q].username

\* C19: a user created by registerUser has role user whatever the request
\* holds, and its stored password is the hash of the password sent and not
\* the password itself; a registerUser with a username shorter than 3 or
\* longer than 50 characters, or a password shorter than 8, is rejected,
\* creates no user and issues no tokens.
C19_RegistrationEffect ==
    [][\A p \in Procs :
          Completes(p, "registerUser") =>
              LET r == req'[p] IN
              /\ r.result = Ok =>
                    /\ ~ users[r.userId].exists
                    /\ users'[r.userId].exists
                    /\ users'[r.userId].role = "user"
                    /\ users'[r.userId].password = bcryptHash(r.password)
                    /\ users'[r.userId].password # r.password
                    /\ \A j \in UserIds \ {r.userId} : users'[j] = users[j]
              /\ (/\ r.username # Absent
                  /\ \/ Len(r.username) < 3 \/ Len(r.username) > 50
                     \/ Len(r.password) < 8) => r.result # Ok
              /\ r.result # Ok =>
                    users' = users /\ issued' = issued /\ r.tokens = NoTokens]_vars

\* C19 witness: a registration whose body asked for role admin succeeded, and
\* the new user has role user and a hashed password.
C19_Witness ==
    \E p \in Procs :
        /\ pc[p] = "done" /\ req[p].op = "registerUser" /\ req[p].result = Ok
        /\ "role" \in DOMAIN req[p].body /\ req[p].body.role = "admin"
        /\ users[req[p].userId].role = "user"
        /\ users[req[p].userId].password = bcryptHash(req[p].password)

\* p is a successful changePassword from one password to another, and q is a
\* loginUser to the same account made after it.
ChangedThenLogin(p, q) ==
    /\ pc[p] = "done" /\ req[p].op = "changePassword" /\ req[p].result = Ok
    /\ pc[q] = "done" /\ req[q].op = "loginUser"
    /\ req[p].currentPassword # req[p].newPassword
    /\ ResolvedInTable(req[q].usersAtCall, req[q].identifier) = {req[p].userId}
    /\ req[q].usersAtCall[req[p].userId].password = bcryptHash(req[p].newPassword)

\* C20: changePassword succeeds only when the current password matches the
\* stored hash and the new one has at least 8 characters, and then stores the
\* hash of the new password; a failed changePassword is one of "User not
\* found", "Current password is incorrect", "New password must be at least 8
\* characters long" and leaves the table as it is; nothing else changes a
\* stored password; a login succeeds exactly when its password is the one
\* stored, so after a change the old password fails and the new one succeeds.
C20_PasswordLifecycle ==
    /\ [](\A p, q \in Procs :
              ChangedThenLogin(p, q) =>
                  (req[q].result = Ok <=> req[q].password = req[p].newPassword))
    /\ [](\A q \in Procs : \A j \in UserIds :
              (/\ pc[q] = "done" /\ req[q].op = "loginUser"
               /\ ResolvedInTable(req[q].usersAtCall, req[q].identifier) = {j}) =>
                  (req[q].result = Ok <=>
                      bcryptCompare(req[q].password, req[q].usersAtCall[j].password)))
    /\ [][\A p \in Procs :
              Completes(p, "changePassword") =>
                  LET r == req'[p] IN
                  IF r.result = Ok
                  THEN /\ users[r.userId].exists
                       /\ bcryptCompare(r.currentPassword, users[r.userId].password)
                       /\ Len(r.newPassword) >= 8
                       /\ users' = [users EXCEPT ![r.userId].password =
                                                     bcryptHash(r.newPassword)]
                  ELSE /\ r.result \in {UserNotFound, CurrentPasswordIncorrect,
                                        NewPasswordLength}
                       /\ users' = users]_vars
    /\ [][(\E u \in UserIds : /\ users[u].exists
                              /\ users'[u].password # users[u].password) =>
              \E p \in Procs : Completes(p, "changePassword") /\ req'[p].result = Ok]_vars

\* C20 witness: after a password change, a login with the old password was
\* refused.
C20_Witness ==
    \E p, q \in Procs :
        /\ ChangedThenLogin(p, q)
        /\ req[q].password = req[p].currentPassword
        /\ req[q].result = InvalidCredentials

\* Request p of kind op is answered in this step.
Answered(p, op) == pc[p] # "done" /\ pc'[p] = "done" /\ req'[p].op = op

\* A changeUsername for an existing user that is over, and the time since
\* that user's last username change when it was made.
NameCallDone(p) ==
    /\ pc[p] = "done" /\ req[p].op = "changeUsername"
    /\ req[p].usersAtCall[req[p].userId].exists

LastChangeAtCall(r) == r.usersAtCall[r.userId].lastUsernameChange
ElapsedAtCall(r) == r.nowAtCall - LastChangeAtCall(r)

\* C16: of two concurrent changeUsername calls by different users for the
\* same username, which no user had when either arrived, at most one
\* succeeds, and when one has succeeded the other is answered "Username
\* already taken".
C16_UsernameRace ==
    /\ UniqueNames
    /\ \A p, q \in Procs :
          (/\ NameCallDone(p) /\ NameCallDone(q)
           /\ req[p].userId # req[q].userId
           /\ req[p].newUsername = req[q].newUsername
           /\ \A j \in UserIds :
                 /\ req[p].usersAtCall[j].username # req[p].newUsername
                 /\ req[q].usersAtCall[j].username # req[q].newUsername
           /\ req[p].result = Ok /\ req[q].result # StorageError)
          => req[q].result = UsernameTaken

\* C17: a changeUsername made less than 7 days after lastUsernameChange is
\* refused with the days remaining, rounded up: a number from 1 to 7, and 1
\* at 7 days minus one second; the refusal changes nothing; a changeUsername
\* made 7 days or more after lastUsernameChange, or with lastUsernameChange
\* unset, is not refused for the cooldown.
C17_CooldownBoundary ==
    /\ [](\A p \in Procs :
              NameCallDone(p) =>
                  LET r == req[p]
                      left == USERNAME_CHANGE_COOLDOWN - ElapsedAtCall(r)
                  IN  IF LastChangeAtCall(r) # Null
                         /\ ElapsedAtCall(r) < USERNAME_CHANGE_COOLDOWN
                      THEN /\ r.result = UsernameCooldown
                           /\ r.daysRemaining \in 1 .. 7
                           /\ (r.daysRemaining - 1) * DayMs < left
                           /\ left <= r.daysRemaining * DayMs
                           /\ ElapsedAtCall(r) = USERNAME_CHANGE_COOLDOWN - 1000
                                 => r.daysRemaining = 1
                      ELSE r.result # UsernameCooldown)
    /\ [][\A p \in Procs :
              (Answered(p, "changeUsername") /\ req'[p].result = UsernameCooldown)
                  => users' = users /\ users = req'[p].usersAtCall]_vars

\* C17 witness: a changeUsername made 7 days minus one second after the last
\* change was refused with one day remaining.
C17_Witness ==
    \E p \in Procs :
        /\ NameCallDone(p)
        /\ LastChangeAtCall(req[p]) # Null
        /\ ElapsedAtCall(req[p]) = USERNAME_CHANGE_COOLDOWN - 1000
        /\ req[p].result = UsernameCooldown
        /\ req[p].daysRemaining = 1

\* C18: every successful changeUsername is made at least 7 days after the
\* user's previous username change, if there is one, whether requests run
\* one after another or together, and sets the username and sets
\* lastUsernameChange to the time of the change.
C18_UsernameRateLimit ==
    [][\A p \in Procs :
          (Answered(p, "changeUsername") /\ req'[p].result = Ok) =>
              LET u == req'[p].userId IN
              /\ \/ users[u].lastUsernameChange = Null
                 \/ now - users[u].lastUsernameChange >= USERNAME_CHANGE_COOLDOWN
              /\ users'[u].lastUsernameChange = now
              /\ users'[u].username = req'[p].newUsername]_vars

\* The columns updateProfile may write, and those it must not.
ProfileFields == {"displayName", "bio", "avatarUrl"}
IdentityFields == {"exists", "username", "email", "password", "role", "lastUsernameChange"}

RoleOrder == <<"user", "moderator", "admin", "site_owner">>
Rank(role) == CHOOSE i \in 1 .. 4 : RoleOrder[i] = role
UserWithRole(role) == [NoRow EXCEPT !.exists = TRUE, !.role = role]

\* A request to a gated route that is over, whose token was accepted and
\* whose user exists.
GatedDone(p) ==
    /\ pc[p] = "done" /\ req[p].op = "gated"
    /\ req[p].result \notin {TokenExpired, InvalidToken}

StoredRoleAtCall(r) == r.usersAtCall[r.adminUserId].role

\* C22: for user < moderator < admin < site_owner, hasPermission(user,
\* required) is true exactly when the user's role is at or above the
\* required one; requireRole(minimum) passes exactly when hasPermission does,
\* for all 16 pairs; and a request to a gated route gets through exactly
\* when hasPermission(request user, minimum) is true.
C22_RoleOrderAndGating ==
    /\ \A have, need \in Roles :
          /\ hasPermission(UserWithRole(have), need) <=> Rank(have) >= Rank(need)
          /\ requireRole(need, have) <=> hasPermission(UserWithRole(have), need)
    /\ \A p \in Procs :
          GatedDone(p) =>
              (req[p].result = Ok <=>
                  hasPermission(req[p].usersAtCall[req[p].adminUserId], req[p].minimumRole))

\* C22 witness: a moderator got through a route that requires moderator.
C22_Witness ==
    \E p \in Procs :
        /\ GatedDone(p) /\ req[p].minimumRole = "moderator"
        /\ StoredRoleAtCall(req[p]) = "moderator"
        /\ req[p].result = Ok

\* C26: a request to a role-gated route is rejected as "Insufficient
\* permissions" exactly when the role stored for the user when the request
\* is made is below the route's minimum, whatever role the access token
\* carries: a token issued before a demotion is rejected, and a token issued
\* before a promotion is accepted at the new level.
C26_LiveRoleDecides ==
    \A p \in Procs :
        LET r == req[p] IN
        (/\ pc[p] = "done" /\ r.op \in {"gated", "changeUserRole"} /\ r.viaRoute
         /\ jwtVerify(r.token, r.nowAtCall) = "ok"
         /\ r.usersAtCall[r.adminUserId].exists)
        => /\ r.result = InsufficientPermissions <=>
                 Rank(StoredRoleAtCall(r)) < Rank(RouteMinimumRole(r))
           /\ (r.op = "gated" /\ r.result # InsufficientPermissions) => r.result = Ok

\* C26 witness: a user whose token says admin was demoted, and the token is
\* rejected on a route that requires admin.
C26_Witness ==
    \E p \in Procs :
        /\ GatedDone(p) /\ req[p].minimumRole = "admin"
        /\ req[p].token.role = "admin"
        /\ StoredRoleAtCall(req[p]) = "user"
        /\ req[p].result = InsufficientPermissions

\* C23: starting with one site owner, exactly one user holds site_owner in
\* every state.
C23_ExactlyOneSiteOwner ==
    Cardinality({i \in UserIds : users0[i].role = "site_owner"}) = 1
        => Cardinality(SiteOwners) = 1

\* C27: with requests running one at a time, a successful changeUserRole
\* writes a role that is not above the role the actor had when the call was
\* made; an actor naming itself as the subject does not end above its own
\* role.
C27_NoGrantAboveOwnRank ==
    \A p \in Procs :
        LET r == req[p] IN
        (RoleCallDone(p) /\ Served(r) /\ r.result = Ok) =>
            /\ users[r.targetUserId].role = r.newRole
            /\ Rank(r.newRole) <= Rank(ActorRoleAtCall(r))
            /\ r.targetUserId = r.adminUserId =>
                  Rank(users[r.adminUserId].role) <= Rank(ActorRoleAtCall(r))

\* C27 witness: a site owner has made a user a site owner, the highest role
\* it can grant.
C27_Witness ==
    \E p \in Procs :
        /\ RoleCallDone(p) /\ Served(req[p]) /\ req[p].result = Ok
        /\ ActorRoleAtCall(req[p]) = "site_owner"
        /\ SubjectRoleAtCall(req[p]) = "user"
        /\ req[p].newRole = "site_owner"
        /\ users[req[p].targetUserId].role = "site_owner"

\* C28: whenever updateUserRole writes a role, the actor's stored role at
\* that moment still permits the change: it is admin or site_owner, and an
\* admin is not granting admin or site_owner.
C28_ActorPrivilegedAtCommit ==
    [][\A p \in Procs :
          (pc[p] = "uur_update" /\ pc'[p] = "uur_insert") =>
              /\ users[req[p].adminUserId].exists
              /\ users[req[p].adminUserId].role \in {"admin", "site_owner"}
              /\ PermissionCheck(users[req[p].adminUserId].role, req[p].newRole) = Ok]_vars

\* The audit records of subject u, in append order.
RecordOf(u, rec) == rec.userId = u
ChainOf(u) == SelectSeq(rolePermissions, LAMBDA rec : RecordOf(u, rec))

\* C29: for every subject, each audit record's previousRole is the newRole of
\* the subject's record before it and differs from its own newRole, and the
\* newRole of the subject's last record is the subject's stored role.
C29_AuditChainConsistent ==
    \A u \in UserIds :
        LET c == ChainOf(u) IN
        /\ \A i \in 1 .. Len(c) :
              /\ c[i].previousRole # c[i].newRole
              /\ i > 1 => c[i].previousRole = c[i - 1].newRole
        /\ Len(c) > 0 => c[Len(c)].newRole = users[u].role

\* C30 as stated: a loginUser with the current username and the current
\* password of a user succeeds and returns that user, whatever other accounts
\* exist.
C30_LoginAvailability ==
    \A q \in Procs :
        (pc[q] = "done" /\ req[q].op = "loginUser") =>
            \A j \in UserIds :
                (/\ req[q].usersAtCall[j].exists
                 /\ req[q].identifier = req[q].usersAtCall[j].username
                 /\ bcryptCompare(req[q].password, req[q].usersAtCall[j].password))
                => req[q].result = Ok /\ req[q].userId = j

\* C30 amended: a loginUser with a user's current email and current password
\* succeeds and returns that user, whatever other accounts exist; one with
\* the user's current username does so when no account has that username as
\* its email, and is otherwise decided against the account that has.
C30_LoginAvailableByEmail ==
    \A q \in Procs :
        (pc[q] = "done" /\ req[q].op = "loginUser") =>
            LET r == req[q]
                t == r.usersAtCall
                byEmail == {k \in UserIds : t[k].exists /\ t[k].email = r.identifier}
            IN  \A j \in UserIds :
                    (t[j].exists /\ bcryptCompare(r.password, t[j].password)) =>
                        /\ r.identifier = t[j].email => r.result = Ok /\ r.userId = j
                        /\ (r.identifier = t[j].username /\ byEmail = {}) =>
                              r.result = Ok /\ r.userId = j
                        /\ (r.identifier = t[j].username /\ byEmail # {}) =>
                              \A k \in byEmail :
                                  IF bcryptCompare(r.password, t[k].password)
                                  THEN r.result = Ok /\ r.userId = k
                                  ELSE r.result = InvalidCredentials

\* C30 witness: another account's email is user 1's username, and user 1 has
\* logged in with its email and password.
C30_Witness ==
    \E q \in Procs :
        /\ pc[q] = "done" /\ req[q].op = "loginUser" /\ req[q].result = Ok
        /\ req[q].identifier = InitEmail(1) /\ req[q].userId = 1
        /\ \E k \in UserIds \ {1} :
              /\ req[q].usersAtCall[k].exists
              /\ req[q].usersAtCall[k].email = req[q].usersAtCall[1].username

\* C24: PUT /api/comments/:id changes a comment only when the authenticated
\* requester is the comment's author or has role moderator or higher; a
\* request by anyone else leaves the comments unchanged.
C24_CommentEditAuthorized ==
    [][\A p \in Procs :
          (Completes(p, "updateComment") /\ comments' # comments) =>
              /\ req'[p].viewer.exists
              /\ req'[p].id \in CommentIds
              /\ canModifyContent(req'[p].viewer, req'[p].token.userId,
                                  comments[req'[p].id].userId)]_vars

\* The requester of a content request is not signed in, or ranks below admin.
BelowAdmin(r) == ~ r.viewer.exists \/ ~ hasPermission(r.viewer, "admin")

ReadRoutes == {"getAnimeList", "getAnimeById", "getAnimeEpisodes"}

\* C25: no anime read route returns an anime that is a draft, or the episodes
\* of one, to a requester who is not signed in or ranks below admin; a draft
\* stops being one only by the publish of an admin or site owner.
C25_DraftVisibility ==
    /\ [](\A p \in Procs :
            (pc[p] = "done" /\ req[p].op \in ReadRoutes /\ BelowAdmin(req[p])) =>
                /\ \A i \in DOMAIN req[p].returnedAnime :
                      req[p].animeAtCall[req[p].returnedAnime[i]].status # "draft"
                /\ \A i \in DOMAIN req[p].returnedEpisodes :
                      req[p].animeAtCall[req[p].returnedEpisodes[i].animeId].status # "draft")
    /\ [][\A a \in AnimeIds :
            (anime[a].status = "draft" /\ anime'[a].status # "draft") =>
                \E p \in Procs : /\ Completes(p, "publishAnime")
                                 /\ req'[p].id = a
                                 /\ ~ BelowAdmin(req'[p])]_vars

====
